---- MODULE Spec2Model ----
(***************************************************************************)
(* Model of drastic/drastic.py: the process-wide toggle (enable/disable),  *)
(* the @strict call-contract wrapper and the @init constructor decorator   *)
(* with its Object / Argument helpers.                                     *)
(*                                                                         *)
(* Python is single threaded here: each decorated call is one atomic step. *)
(* The most recent decorated call leaves behind an observation record,     *)
(* `last`, holding what a caller can see of it: the exception raised or    *)
(* the value returned, the instance that was being built, and the order of *)
(* the wrapper's steps.  `typ` is the state of each class object.          *)
(***************************************************************************)
EXTENDS Integers, Sequences, FiniteSets, TLC

VARIABLES enabled, typ, last

vars == <<enabled, typ, last>>

(***************************************************************************)
(* Bounds                                                                  *)
(***************************************************************************)
\* longest _varstr list a type may accumulate before constructions that
\* would lengthen it further are no longer explored
MaxVarStr == 2

(***************************************************************************)
(* Python values.  ty is type(value).__name__; n, s, l carry the payload   *)
(* of an int/bool, a str and a list.                                       *)
(***************************************************************************)
PyNone == [ty |-> "NoneType", n |-> 0, s |-> "", l |-> <<>>]
PyInt(i) == [ty |-> "int", n |-> i, s |-> "", l |-> <<>>]
PyBool(b) == [ty |-> "bool", n |-> IF b THEN 1 ELSE 0, s |-> "", l |-> <<>>]
PyStr(t) == [ty |-> "str", n |-> 0, s |-> t, l |-> <<>>]
PyList(q) == [ty |-> "list", n |-> 0, s |-> "", l |-> q]

\* the values calls are made with
Values == {PyNone, PyInt(0), PyInt(5), PyBool(TRUE), PyStr("5"), PyList(<<1, 2, 3>>)}

\* the classes a value is an instance of (its type's method resolution order)
Mro(ty) ==
    CASE ty = "bool" -> {"bool", "int", "object"}
      [] OTHER -> {ty, "object"}

\* isinstance(value, types) for a tuple of types; isinstance(v, ()) is False
isinstance(value, types) == \E i \in 1..Len(types) : types[i] \in Mro(value.ty)

(***************************************************************************)
(* Annotations.  An annotation is a single element or a tuple of elements; *)
(* an element is a type or a string.  A string is kept as the sequence of  *)
(* its pieces (words and " " separators) so that str.split() and string    *)
(* equality are computed, not assumed.                                     *)
(***************************************************************************)
TypeAnn(name) == [kind |-> "type", name |-> name, text |-> <<>>, elems |-> <<>>]
StrAnn(pieces) == [kind |-> "str", name |-> "", text |-> pieces, elems |-> <<>>]
\* a parameter without annotation: defaultdict(lambda: None, ...)[name]
NoAnn == [kind |-> "none", name |-> "", text |-> <<>>, elems |-> <<>>]
\* a tuple annotation
TupleAnn(elems) == [kind |-> "tuple", name |-> "", text |-> <<>>, elems |-> elems]

\* the module constant nonable = 'nonable'
nonable == StrAnn(<<"nonable">>)

\* _to_tuple(value): a tuple is returned as is, anything else is wrapped
_to_tuple(value) == IF value.kind = "tuple" THEN value.elems ELSE <<value>>

RECURSIVE Join(_)
\* the Python string spelled by a sequence of pieces
Join(pieces) ==
    IF pieces = <<>> THEN "" ELSE Head(pieces) \o Join(Tail(pieces))

RECURSIVE SplitFrom(_, _, _)
\* str.split(): maximal runs of non-blank pieces, blanks dropped
SplitFrom(pieces, cur, acc) ==
    IF pieces = <<>>
    THEN IF cur = "" THEN acc ELSE Append(acc, cur)
    ELSE IF Head(pieces) = " "
         THEN SplitFrom(Tail(pieces), "", IF cur = "" THEN acc ELSE Append(acc, cur))
         ELSE SplitFrom(Tail(pieces), cur \o Head(pieces), acc)

split(pieces) == SplitFrom(pieces, "", <<>>)

ToSet(seq) == {seq[i] : i \in 1..Len(seq)}

(***************************************************************************)
(* _type_ok (used by strict)                                               *)
(***************************************************************************)
RECURSIVE TypesOf(_)
\* tuple(t for t in expected if isinstance(t, type))
TypesOf(expected) ==
    IF expected = <<>> THEN <<>>
    ELSE IF Head(expected).kind = "type"
         THEN <<Head(expected).name>> \o TypesOf(Tail(expected))
         ELSE TypesOf(Tail(expected))

\* 'nonable' in expected: some element of the tuple equals the string 'nonable'
NonableIn(expected) ==
    \E i \in 1..Len(expected) :
        expected[i].kind = "str" /\ Join(expected[i].text) = "nonable"

_type_ok(value, expected) ==
    LET types == TypesOf(expected)
        nullable == NonableIn(expected)
    IN isinstance(value, types) \/ (nullable /\ value = PyNone)

(***************************************************************************)
(* Argument: one (name, value, annotation) descriptor of a construction    *)
(***************************************************************************)
RECURSIVE ParseAnn(_, _, _)
\* the loop of Argument.__init__: types accumulate, each string REPLACES
\* the keyword set, anything else is ignored
ParseAnn(annotations, types, keywords) ==
    IF annotations = <<>> THEN [types |-> types, keywords |-> keywords]
    ELSE LET a == Head(annotations)
         IN IF a.kind = "type"
            THEN ParseAnn(Tail(annotations), Append(types, a.name), keywords)
            ELSE IF a.kind = "str"
                 THEN ParseAnn(Tail(annotations), types, ToSet(split(a.text)))
                 ELSE ParseAnn(Tail(annotations), types, keywords)

\* a variant of check_type whose nullable test forgets the 'nonable' keyword
check_type_no_nonable(value, types, keywords) ==
    IF types # <<>> THEN isinstance(value, types) ELSE TRUE

\* Argument.check_type: TRUE when it passes, FALSE when it raises
\* ArgumentTypeError
check_type(value, types, keywords) ==
    IF types # <<>>
    THEN LET nullable == value = PyNone /\ "nonable" \in keywords
         IN nullable \/ isinstance(value, types)
    ELSE TRUE

\* Argument(name, value, annotations); raised is TRUE when the constructor
\* raises ArgumentTypeError
Argument(name, value, annotations) ==
    LET p == ParseAnn(_to_tuple(annotations), <<>>, {})
    IN [name |-> name, value |-> value, types |-> p.types,
        keywords |-> p.keywords,
        raised |-> ~check_type(value, p.types, p.keywords)]

(***************************************************************************)
(* The strict decorator                                                    *)
(***************************************************************************)
\* the receiver passed as args[0] of a method
PySelf == [ty |-> "object", n |-> 0, s |-> "", l |-> <<>>]

\* no value: what a call that raised hands back
NoValue == [ty |-> "<raised>", n |-> 0, s |-> "", l |-> <<>>]

\* The decorated callables exercised: spec.args and spec.annotations of
\* each (inspect.getfullargspec), the latter a dict keyed by parameter
\* name and 'return'.
\*   def f(n: int) -> str
\*   def g(self, v: (int, nonable))
\*   def h(x: "the count") -> (str, "nonable private")
\*   def m(self)
Funcs == {"f", "g", "h", "m"}

FuncArgs(func) ==
    CASE func = "f" -> <<"n">>
      [] func = "g" -> <<"self", "v">>
      [] func = "h" -> <<"x">>
      [] func = "m" -> <<"self">>

FuncAnnotations(func) ==
    CASE func = "f" -> [k \in {"n", "return"} |->
                           IF k = "n" THEN TypeAnn("int") ELSE TypeAnn("str")]
      [] func = "g" -> [k \in {"v"} |-> TupleAnn(<<TypeAnn("int"), nonable>>)]
      [] func = "h" -> [k \in {"x", "return"} |->
                           IF k = "x" THEN StrAnn(<<"the", " ", "count">>)
                           ELSE TupleAnn(<<TypeAnn("str"),
                                           StrAnn(<<"nonable", " ", "private">>)>>)]
      [] func = "m" -> [k \in {} |-> NoAnn]

RECURSIVE FirstBadArg(_, _, _, _)
\* the loop over zip(spec.args[i:], args[i:]): the position of the first
\* annotated argument that is not _type_ok, 0 when the loop completes
FirstBadArg(names, annotations, args, i) ==
    IF i > Len(names) \/ i > Len(args) THEN 0
    ELSE IF /\ names[i] \in DOMAIN annotations
            /\ ~_type_ok(args[i], _to_tuple(annotations[names[i]]))
         THEN i
         ELSE FirstBadArg(names, annotations, args, i + 1)

\* a variant of the arguments check that starts at the second argument
\* whether or not the first parameter is the receiver
ArgumentsCheck_skip_first(func, args) ==
    LET names == FuncArgs(func)
    IN IF args # <<>> /\ names # <<"self">>
       THEN FirstBadArg(names, FuncAnnotations(func), args, 2)
       ELSE 0

\* the "Arguments check" block of checker
ArgumentsCheck(func, args) ==
    LET names == FuncArgs(func)
    IN IF args # <<>> /\ names # <<"self">>
       THEN LET i == IF names[1] = "self" THEN 1 ELSE 0
            IN FirstBadArg(names, FuncAnnotations(func), args, i + 1)
       ELSE 0

\* the outcome of a wrapped call.  events lists the steps taken in order:
\* "arguments" (argument check), "func" (the real callable runs), "return"
\* (return check); param, expected and received are what the error names.
Outcome(outcome, events, returned, param, expected, received) ==
    [outcome |-> outcome, events |-> events, returned |-> returned,
     param |-> param, expected |-> expected, received |-> received]

\* checker with the toggle off: return func(*args, **kwargs)
call_through(result) == Outcome("ok", <<"func">>, result, "", <<>>, "")

\* checker with the toggle on; func's body yields `result` when reached
enforce(func, args, result) ==
    LET annotations == FuncAnnotations(func)
        bad == ArgumentsCheck(func, args)
    IN IF bad # 0
       THEN Outcome("ArgumentTypeError", <<"arguments">>, NoValue,
                    FuncArgs(func)[bad],
                    TypesOf(_to_tuple(annotations[FuncArgs(func)[bad]])),
                    args[bad].ty)
       ELSE IF "return" \in DOMAIN annotations
            THEN IF ~_type_ok(result, _to_tuple(annotations["return"]))
                 THEN Outcome("ReturnTypeError", <<"arguments", "func", "return">>,
                              NoValue, "return",
                              TypesOf(_to_tuple(annotations["return"])),
                              result.ty)
                 ELSE Outcome("ok", <<"arguments", "func", "return">>, result,
                              "", <<>>, "")
            ELSE Outcome("ok", <<"arguments", "func">>, result, "", <<>>, "")

\* a variant of checker that enforces whatever the toggle says, as if the
\* toggle had been read when the callable was decorated
checker_decoration_time(func, args, result, en) == enforce(func, args, result)

\* checker(*args), en being the value of _enabled it reads
checker(func, args, result, en) ==
    IF ~en THEN call_through(result) ELSE enforce(func, args, result)

(***************************************************************************)
(* The init decorator: Object                                              *)
(***************************************************************************)
\* The classes whose __init__ is decorated with @init, each with a body
\* that is `pass` unless stated:
\*   class Counter: __init__(self, label: "string",
\*                           count: (int, "private boolean nonable"))
\*   class Bag:     __init__(self, items: (list, "container"),
\*                           size: (int, "number compare"))
\*   class TwoBool: __init__(self, a: "boolean", b: "string  boolean")
\*   class Loc:     __init__(self, x: "local", y: "local compare"):
\*                      self.x = x
Classes == {"Counter", "Bag", "TwoBool", "Loc"}

\* spec.args[1:]
ClassArgs(cls) ==
    CASE cls = "Counter" -> <<"label", "count">>
      [] cls = "Bag" -> <<"items", "size">>
      [] cls = "TwoBool" -> <<"a", "b">>
      [] cls = "Loc" -> <<"x", "y">>

\* spec.annotations
ClassAnnotations(cls) ==
    CASE cls = "Counter" ->
           [k \in {"label", "count"} |->
              IF k = "label" THEN StrAnn(<<"string">>)
              ELSE TupleAnn(<<TypeAnn("int"),
                   StrAnn(<<"private", " ", "boolean", " ", "nonable">>)>>)]
      [] cls = "Bag" ->
           [k \in {"items", "size"} |->
              IF k = "items"
              THEN TupleAnn(<<TypeAnn("list"), StrAnn(<<"container">>)>>)
              ELSE TupleAnn(<<TypeAnn("int"),
                              StrAnn(<<"number", " ", "compare">>)>>)]
      [] cls = "TwoBool" ->
           [k \in {"a", "b"} |->
              IF k = "a" THEN StrAnn(<<"boolean">>)
              ELSE StrAnn(<<"string", " ", " ", "boolean">>)]
      [] cls = "Loc" ->
           [k \in {"x", "y"} |->
              IF k = "x" THEN StrAnn(<<"local">>)
              ELSE StrAnn(<<"local", " ", "compare">>)]

\* the parameters the original constructor body assigns itself
ClassBody(cls) == IF cls = "Loc" THEN {"x"} ELSE {}

\* Object.local_incompatible and Object.uniques
local_incompatible == {"private", "boolean", "number", "string", "container", "compare"}
uniques == {"boolean", "number", "container", "compare"}

\* a type attribute that was never set (hasattr is False)
Unset == "<unset>"

\* a class as defined, before any decorated construction touched it
FreshType ==
    [_initialized |-> FALSE, methods |-> {}, _varbool |-> Unset,
     _varnumber |-> Unset, _varitems |-> Unset, _varcmp |-> Unset,
     _varstr |-> <<>>]

\* setattr(obj, name, value) on an instance's attribute dict
setattr(attrs, name, value) ==
    [k \in DOMAIN attrs \cup {name} |-> IF k = name THEN value ELSE attrs[k]]

\* an instance without attributes
NoAttrs == [k \in {} |-> PyNone]

\* Object.__init__(obj): wraps the instance, the keyword set starts empty
Object__init__(cls, attrs, type) ==
    [name |-> cls, obj |-> attrs, type |-> type, keywords |-> {}]

\* a variant of check_consistency without the 'local' rule
check_consistency_no_local(keywords, argument) ==
    LET error_keywords == (argument.keywords \cap uniques) \cap keywords
    IN IF error_keywords # {}
       THEN [raised |-> TRUE, keywords |-> keywords]
       ELSE [raised |-> FALSE, keywords |-> keywords \cup argument.keywords]

\* Object.check_consistency: raised is the AnnotationError case, keywords
\* the Object's keyword set afterwards
check_consistency(keywords, argument) ==
    LET incompatibles == argument.keywords \cap local_incompatible
        error_keywords == (argument.keywords \cap uniques) \cap keywords
    IN IF "local" \in argument.keywords /\ incompatibles # {}
       THEN [raised |-> TRUE, keywords |-> keywords]
       ELSE IF error_keywords # {}
            THEN [raised |-> TRUE, keywords |-> keywords]
            ELSE [raised |-> FALSE, keywords |-> keywords \cup argument.keywords]

\* Object.set_private: argument.name becomes '_<Class>__<name>'
set_private(cls, argument) ==
    [argument EXCEPT !.name = "_" \o cls \o "__" \o argument.name]

add_tobool(type, argument) ==
    [type EXCEPT !.methods = @ \cup {"__bool__"}, !._varbool = argument.name]

add_tonumber(type, argument) ==
    [type EXCEPT !.methods = @ \cup {"__int__", "__float__"},
                 !._varnumber = argument.name]

\* hasattr(type, '_varstr') is False exactly while the list was never made
register_tostring(type, argument) ==
    [type EXCEPT !._varstr = IF @ = <<>> THEN <<argument.name>>
                             ELSE Append(@, argument.name)]

add_container_methods(type, argument) ==
    [type EXCEPT !.methods = @ \cup {"__getitem__", "__setitem__", "__delitem__",
                                     "__iter__", "__reversed__", "__contains__"},
                 !._varitems = argument.name]

add_comparison_methods(type, argument) ==
    [type EXCEPT !.methods = @ \cup {"__eq__", "__ne__", "__lt__", "__le__"},
                 !._varcmp = argument.name]

add_tostring(type) ==
    IF type._varstr # <<>> THEN [type EXCEPT !.methods = @ \cup {"__str__"}]
    ELSE type

\* the installation block of add_argument, run while the type has no
\* _initialized attribute; yields the argument (possibly renamed) and the type
install(o, argument) ==
    LET kw == argument.keywords
        a1 == IF "private" \in kw THEN set_private(o.name, argument) ELSE argument
        t1 == IF "boolean" \in kw THEN add_tobool(o.type, a1) ELSE o.type
        t2 == IF "number" \in kw THEN add_tonumber(t1, a1) ELSE t1
        t3 == IF "string" \in kw THEN register_tostring(t2, a1) ELSE t2
        t4 == IF "container" \in kw THEN add_container_methods(t3, a1) ELSE t3
        t5 == IF "compare" \in kw THEN add_comparison_methods(t4, a1) ELSE t4
    IN [argument |-> a1, type |-> t5]

\* a variant of add_argument that installs on every construction, without
\* looking at _initialized
add_argument_always_install(o, argument) ==
    LET c == check_consistency(o.keywords, argument)
    IN IF c.raised
       THEN [raised |-> TRUE, o |-> o]
       ELSE LET i == install(o, argument)
            IN [raised |-> FALSE,
                o |-> [o EXCEPT !.keywords = c.keywords,
                                !.type = i.type,
                                !.obj = setattr(@, i.argument.name,
                                                i.argument.value)]]

\* Object.add_argument: raised is TRUE when check_consistency raised
add_argument(o, argument) ==
    LET c == check_consistency(o.keywords, argument)
    IN IF c.raised
       THEN [raised |-> TRUE, o |-> o]
       ELSE LET i == IF ~o.type._initialized THEN install(o, argument)
                     ELSE [argument |-> argument, type |-> o.type]
            IN [raised |-> FALSE,
                o |-> [o EXCEPT !.keywords = c.keywords,
                                !.type = i.type,
                                !.obj = setattr(@, i.argument.name,
                                                i.argument.value)]]

\* Object.finalize
finalize(o) ==
    [o EXCEPT !.type = [add_tostring(@) EXCEPT !._initialized = TRUE]]

RECURSIVE InitLoop(_, _, _, _)
\* the for loop of __init over zip(spec.args[1:], arguments[1:]) followed by
\* obj.finalize(); failedAt is the position of the descriptor that raised
InitLoop(o, cls, args, i) ==
    IF i > Len(ClassArgs(cls))
    THEN [outcome |-> "ok", failedAt |-> 0, o |-> finalize(o)]
    ELSE LET name == ClassArgs(cls)[i]
             annotations == ClassAnnotations(cls)
             argument == Argument(name, args[i],
                                  IF name \in DOMAIN annotations
                                  THEN annotations[name] ELSE NoAnn)
         IN IF argument.raised
            THEN [outcome |-> "ArgumentTypeError", failedAt |-> i, o |-> o]
            ELSE LET r == add_argument(o, argument)
                 IN IF r.raised
                    THEN [outcome |-> "AnnotationError", failedAt |-> i, o |-> o]
                    ELSE InitLoop(r.o, cls, args, i + 1)

RECURSIVE Body(_, _, _, _)
\* constructor(*args): the original body assigns the parameters it names
Body(attrs, cls, args, i) ==
    IF i > Len(ClassArgs(cls)) THEN attrs
    ELSE Body(IF ClassArgs(cls)[i] \in ClassBody(cls)
              THEN setattr(attrs, ClassArgs(cls)[i], args[i]) ELSE attrs,
              cls, args, i + 1)

\* __init(*args) of the init decorator, called on a new instance with the
\* positional arguments args; type is the class's state at the call
__init(cls, type, args, en) ==
    IF en
    THEN LET r == InitLoop(Object__init__(cls, NoAttrs, type), cls, args, 1)
         IN [outcome |-> r.outcome, failedAt |-> r.failedAt,
             keywords |-> r.o.keywords, type |-> r.o.type,
             obj |-> IF r.outcome = "ok" THEN Body(r.o.obj, cls, args, 1)
                     ELSE r.o.obj]
    ELSE [outcome |-> "ok", failedAt |-> 0, keywords |-> {}, type |-> type,
          obj |-> Body(NoAttrs, cls, args, 1)]

(***************************************************************************)
(* The capabilities installed on a type, evaluated on an instance.  A      *)
(* result is [exc, val, text, items]: exc is "" or the exception raised.   *)
(***************************************************************************)
Raise(exc) == [exc |-> exc, val |-> NoValue, text |-> "", items |-> <<>>]
Return(val) == [exc |-> "", val |-> val, text |-> "", items |-> <<>>]

\* getattr(self, name)
getattr(attrs, name) ==
    IF name \in DOMAIN attrs THEN Return(attrs[name]) ELSE Raise("AttributeError")

\* bool(value) of a builtin value
Truth(value) ==
    CASE value.ty \in {"int", "bool"} -> value.n # 0
      [] value.ty = "str" -> value.s # ""
      [] value.ty = "list" -> value.l # <<>>
      [] value.ty = "NoneType" -> FALSE
      [] OTHER -> TRUE

RECURSIVE ListText(_)
ListText(q) ==
    IF q = <<>> THEN ""
    ELSE IF Len(q) = 1 THEN ToString(q[1])
         ELSE ToString(q[1]) \o ", " \o ListText(Tail(q))

\* str(value) of a builtin value, as '{1}'.format(value) renders it
StrOf(value) ==
    CASE value.ty = "int" -> ToString(value.n)
      [] value.ty = "bool" -> IF value.n = 1 THEN "True" ELSE "False"
      [] value.ty = "str" -> value.s
      [] value.ty = "list" -> "[" \o ListText(value.l) \o "]"
      [] value.ty = "NoneType" -> "None"
      [] OTHER -> "<object>"

_bool(type, attrs) ==
    LET g == getattr(attrs, type._varbool)
    IN IF g.exc # "" THEN g ELSE Return(PyBool(Truth(g.val)))

_len(type, attrs) ==
    LET g == getattr(attrs, type._varitems)
    IN IF g.exc # "" THEN g
       ELSE IF g.val.ty = "list" THEN Return(PyInt(Len(g.val.l)))
            ELSE IF g.val.ty = "str" THEN Return(PyInt(Len(g.val.s)))
                 ELSE Raise("TypeError")

_iter(type, attrs) ==
    LET g == getattr(attrs, type._varitems)
    IN IF g.exc # "" THEN g
       ELSE IF g.val.ty = "list" THEN [Return(PyNone) EXCEPT !.items = g.val.l]
            ELSE Raise("TypeError")

_contains(type, attrs, item) ==
    LET g == getattr(attrs, type._varitems)
    IN IF g.exc # "" THEN g
       ELSE IF g.val.ty = "list"
            THEN Return(PyBool(/\ item.ty \in {"int", "bool"}
                               /\ item.n \in ToSet(g.val.l)))
            ELSE Raise("TypeError")

RECURSIVE StrFields(_, _)
\* ', '.join('{0}={1}'.format(field, getattr(self, field)) for field in _varstr)
StrFields(fields, attrs) ==
    IF fields = <<>> THEN Return(PyNone)
    ELSE LET g == getattr(attrs, Head(fields))
             rest == StrFields(Tail(fields), attrs)
         IN IF g.exc # "" THEN g
            ELSE IF rest.exc # "" THEN rest
                 ELSE [rest EXCEPT !.text =
                         Head(fields) \o "=" \o StrOf(g.val)
                         \o (IF Tail(fields) = <<>> THEN "" ELSE ", " \o @)]

_str(cls, type, attrs) ==
    LET v == StrFields(type._varstr, attrs)
    IN IF v.exc # "" THEN v
       ELSE [v EXCEPT !.text = "<" \o cls \o ": " \o @ \o ">"]

\* what the interpreter does for bool(x), len(x), iter(x), item in x on an
\* instance x of the class: dispatch to the method on the type when there
\* is one
py_bool(type, attrs) ==
    IF "__bool__" \in type.methods THEN _bool(type, attrs)
    ELSE IF "__len__" \in type.methods
         THEN LET n == _len(type, attrs)
              IN IF n.exc # "" THEN n ELSE Return(PyBool(n.val.n # 0))
         ELSE Return(PyBool(TRUE))

py_len(type, attrs) ==
    IF "__len__" \in type.methods THEN _len(type, attrs) ELSE Raise("TypeError")

py_iter(type, attrs) ==
    IF "__iter__" \in type.methods THEN _iter(type, attrs) ELSE Raise("TypeError")

py_contains(type, attrs, item) ==
    IF "__contains__" \in type.methods THEN _contains(type, attrs, item)
    ELSE Raise("TypeError")

(***************************************************************************)
(* State machine                                                           *)
(***************************************************************************)
\* the observation of the most recent decorated call
NoCall ==
    [kind |-> "none", name |-> "", args |-> <<>>, en |-> TRUE,
     wasInit |-> FALSE, outcome |-> "ok", failedAt |-> 0, keywords |-> {},
     obj |-> NoAttrs, events |-> <<>>, result |-> NoValue,
     returned |-> NoValue, param |-> "", expected |-> <<>>, received |-> ""]

Init ==
    /\ enabled = TRUE
    /\ typ = [c \in Classes |-> FreshType]
    /\ last = NoCall

enable ==
    /\ enabled' = TRUE
    /\ UNCHANGED <<typ, last>>

disable ==
    /\ enabled' = FALSE
    /\ UNCHANGED <<typ, last>>

\* the values each constructor parameter is called with
ClassValues(cls) ==
    CASE cls = "Counter" -> <<{PyStr("5"), PyNone},
                              {PyNone, PyInt(0), PyInt(5), PyBool(TRUE), PyStr("5")}>>
      [] cls = "Bag" -> <<{PyList(<<1, 2, 3>>), PyStr("5")},
                          {PyNone, PyInt(0), PyInt(5)}>>
      [] cls = "TwoBool" -> <<{PyInt(0), PyInt(5)}, {PyNone, PyStr("5")}>>
      [] cls = "Loc" -> <<{PyNone, PyInt(5)}, {PyInt(0), PyStr("5")}>>

ConstructArgs(cls) ==
    {a \in [1..Len(ClassArgs(cls)) -> Values] :
        \A i \in 1..Len(ClassArgs(cls)) : a[i] \in ClassValues(cls)[i]}

\* cls(*args): a new instance is made and the decorated __init__ runs on it
Construct ==
    \E cls \in Classes : \E args \in ConstructArgs(cls) :
        LET r == __init(cls, typ[cls], args, enabled)
        IN /\ Len(r.type._varstr) <= MaxVarStr
           /\ typ' = [typ EXCEPT ![cls] = r.type]
           /\ last' = [NoCall EXCEPT !.kind = "init", !.name = cls,
                          !.args = args, !.en = enabled,
                          !.wasInit = typ[cls]._initialized,
                          !.outcome = r.outcome, !.failedAt = r.failedAt,
                          !.keywords = r.keywords, !.obj = r.obj]
           /\ UNCHANGED enabled

\* the arguments a strict-wrapped callable is called with: the receiver
\* first for a method, then one value per parameter
CallArgs(func) ==
    {a \in [1..Len(FuncArgs(func)) -> Values \cup {PySelf}] :
        \A i \in 1..Len(FuncArgs(func)) :
            (a[i] = PySelf) <=> (FuncArgs(func)[i] = "self")}

\* the values the body of a wrapped callable may return
Results == {PyNone, PyInt(5), PyStr("5")}

\* a call of a strict-wrapped callable whose body would return `result`
StrictCall ==
    \E func \in Funcs : \E args \in CallArgs(func) : \E result \in Results :
        LET r == checker(func, args, result, enabled)
        IN /\ last' = [NoCall EXCEPT !.kind = "strict", !.name = func,
                          !.args = args, !.en = enabled,
                          !.outcome = r.outcome, !.events = r.events,
                          !.result = result, !.returned = r.returned,
                          !.param = r.param, !.expected = r.expected,
                          !.received = r.received]
           /\ UNCHANGED <<enabled, typ>>

Next == enable \/ disable \/ Construct \/ StrictCall

Spec == Init /\ [][Next]_vars

(***************************************************************************)
(* Vocabulary of the properties, taken from the declarations               *)
(***************************************************************************)
\* the annotation declared for parameter i of a class's constructor
DeclAnn(cls, i) ==
    IF ClassArgs(cls)[i] \in DOMAIN ClassAnnotations(cls)
    THEN ClassAnnotations(cls)[ClassArgs(cls)[i]] ELSE NoAnn

\* the traits and the acceptable types declared for parameter i
DeclTraits(cls, i) == ParseAnn(_to_tuple(DeclAnn(cls, i)), <<>>, {}).keywords
DeclTypes(cls, i) == ToSet(TypesOf(_to_tuple(DeclAnn(cls, i))))

Fields(cls) == 1..Len(ClassArgs(cls))

\* '_<TypeName>__<field>'
Mangled(cls, i) == "_" \o cls \o "__" \o ClassArgs(cls)[i]

\* the descriptor rule: the value is rejected by the declared constraint
Rejects(types, traits, value) ==
    /\ types # {}
    /\ \A t \in types : t \notin Mro(value.ty)
    /\ ~(value = PyNone /\ "nonable" \in traits)

\* the trait rule: descriptor i conflicts with itself or an earlier one
Conflict(cls, i) ==
    \/ /\ "local" \in DeclTraits(cls, i)
       /\ DeclTraits(cls, i) \cap
            {"private", "boolean", "number", "string", "container", "compare"} # {}
    \/ \E j \in 1..(i - 1) :
          DeclTraits(cls, i) \cap DeclTraits(cls, j)
            \cap {"boolean", "number", "container", "compare"} # {}

\* the first conflicting descriptor of a class, 0 when there is none
FirstConflict(cls) ==
    IF \E i \in Fields(cls) : Conflict(cls, i)
    THEN CHOOSE i \in Fields(cls) :
            Conflict(cls, i) /\ \A j \in 1..(i - 1) : ~Conflict(cls, j)
    ELSE 0

IsInit(c) == c.kind = "init"
IsStrict(c) == c.kind = "strict"

\* every value of a construction satisfies its declared constraint
TypeCorrect(c) ==
    \A i \in Fields(c.name) :
        ~Rejects(DeclTypes(c.name, i), DeclTraits(c.name, i), c.args[i])

\* a call that enforcement has to refuse: a constructor whose declaration
\* conflicts or that gets a wrong-typed value, a wrapped callable that gets
\* a wrong-typed positional argument
WrongTypedArg(c) ==
    \E i \in 1..Len(FuncArgs(c.name)) :
        /\ FuncArgs(c.name)[i] \in DOMAIN FuncAnnotations(c.name)
        /\ LET types == ToSet(TypesOf(_to_tuple(FuncAnnotations(c.name)[FuncArgs(c.name)[i]])))
           IN /\ types # {}
              /\ c.args[i] # PyNone
              /\ \A t \in types : t \notin Mro(c.args[i].ty)

Refusable(c) ==
    \/ IsInit(c) /\ (FirstConflict(c.name) # 0 \/ ~TypeCorrect(c))
    \/ IsStrict(c) /\ WrongTypedArg(c)

SameCall(c, d) ==
    /\ c.kind = d.kind /\ c.name = d.name /\ c.args = d.args
    /\ c.result = d.result

(***************************************************************************)
(* Properties                                                              *)
(***************************************************************************)
\* C1: the toggle is read at every call: a decorated call made while the
\* toggle is off never raises, whatever its arguments and declarations,
\* and the same call repeated once the toggle is on again is refused.
C1_ToggleReadAtEveryCall ==
    [][ /\ (last'.kind # "none" /\ ~last'.en) => last'.outcome = "ok"
        /\ ( /\ last.kind # "none" /\ ~last.en /\ last'.en
             /\ SameCall(last, last') /\ Refusable(last') )
           => last'.outcome \in {"ArgumentTypeError", "AnnotationError"}
        /\ (last' # last) => (last'.en = enabled) ]_vars

\* a refusable call went through while the toggle was off
C1_Witness ==
    /\ ~last.en /\ Refusable(last) /\ last.outcome = "ok"

\* the name a descriptor is attached under: mangled when it declares
\* 'private'
DescriptorName(cls, i) ==
    IF "private" \in DeclTraits(cls, i) THEN Mangled(cls, i) ELSE ClassArgs(cls)[i]

\* the backing fields and the string list recorded on a type
Recorded(type) ==
    {type._varbool, type._varnumber, type._varitems, type._varcmp}
      \cup ToSet(type._varstr)

\* C2: with the toggle on and type-correct values, the descriptors of one
\* construction are checked in declaration order against a trait set that
\* starts empty; the construction raises AnnotationError exactly at the
\* first descriptor that combines 'local' with a capability trait or that
\* repeats a unique trait of an earlier descriptor.  The descriptors before
\* it are installed and assigned, the failing one is neither installed nor
\* assigned, and the trait set holds the traits of the earlier ones only.
C2_ConsistencyRule ==
    (IsInit(last) /\ last.en /\ TypeCorrect(last)) =>
        LET cls == last.name
            k == FirstConflict(cls)
        IN IF k = 0
           THEN /\ last.outcome = "ok"
                /\ last.keywords = UNION {DeclTraits(cls, i) : i \in Fields(cls)}
           ELSE /\ last.outcome = "AnnotationError"
                /\ last.failedAt = k
                /\ last.keywords = UNION {DeclTraits(cls, j) : j \in 1..(k - 1)}
                /\ DOMAIN last.obj = {DescriptorName(cls, j) : j \in 1..(k - 1)}
                /\ \A j \in 1..(k - 1) :
                      /\ last.obj[DescriptorName(cls, j)] = last.args[j]
                      /\ "boolean" \in DeclTraits(cls, j) =>
                            /\ "__bool__" \in typ[cls].methods
                            /\ typ[cls]._varbool = DescriptorName(cls, j)
                /\ DescriptorName(cls, k) \notin Recorded(typ[cls])
                /\ ~typ[cls]._initialized

\* two fields both declare 'boolean': the first is installed and assigned,
\* the second raised
C2_Witness ==
    /\ IsInit(last) /\ last.en /\ last.name = "TwoBool"
    /\ last.outcome = "AnnotationError" /\ last.failedAt = 2
    /\ typ["TwoBool"]._varbool = "a" /\ "a" \in DOMAIN last.obj

\* C3: descriptor construction raises ArgumentTypeError exactly when the
\* acceptable types are non-empty, the value is an instance of none of
\* them, and the value is not None under a constraint with 'nonable'.
C3_DescriptorRule ==
    (IsInit(last) /\ last.en) =>
        LET cls == last.name
            rejected(i) == Rejects(DeclTypes(cls, i), DeclTraits(cls, i), last.args[i])
        IN /\ last.outcome = "ArgumentTypeError" =>
                /\ rejected(last.failedAt)
                /\ \A j \in 1..(last.failedAt - 1) : ~rejected(j)
           /\ last.outcome = "AnnotationError" =>
                \A j \in 1..last.failedAt : ~rejected(j)
           /\ last.outcome = "ok" => \A j \in Fields(cls) : ~rejected(j)

\* None was accepted for a parameter declared (int, '... nonable')
C3_Witness ==
    /\ IsInit(last) /\ last.en /\ last.name = "Counter"
    /\ last.args[2] = PyNone /\ last.outcome = "ok"

\* the positional arguments the wrapper looks at: all but the receiver
Checked(func) ==
    {i \in 1..Len(FuncArgs(func)) :
        /\ FuncArgs(func)[i] # "self"
        /\ FuncArgs(func)[i] \in DOMAIN FuncAnnotations(func)}

ArgMismatch(c) ==
    \E i \in Checked(c.name) :
        ~_type_ok(c.args[i], _to_tuple(FuncAnnotations(c.name)[FuncArgs(c.name)[i]]))

ReturnMismatch(c) ==
    /\ "return" \in DOMAIN FuncAnnotations(c.name)
    /\ ~_type_ok(c.result, _to_tuple(FuncAnnotations(c.name)["return"]))

\* C4: a strict-wrapped call with the toggle on validates the positional
\* arguments first and raises ArgumentTypeError without running the
\* callable; otherwise it runs the callable exactly once, then validates
\* the result and raises ReturnTypeError on a mismatch; otherwise it
\* returns the result unchanged.
C4_StrictOrder ==
    (IsStrict(last) /\ last.en) =>
        /\ Head(last.events) = "arguments"
        /\ IF ArgMismatch(last)
           THEN /\ last.outcome = "ArgumentTypeError"
                /\ last.events = <<"arguments">>
                /\ last.returned = NoValue
           ELSE /\ Len(SelectSeq(last.events, LAMBDA e : e = "func")) = 1
                /\ IF ReturnMismatch(last)
                   THEN /\ last.outcome = "ReturnTypeError"
                        /\ last.events = <<"arguments", "func", "return">>
                        /\ last.returned = NoValue
                   ELSE /\ last.outcome = "ok"
                        /\ last.returned = last.result
        /\ last.name = "f" =>
              /\ (last.args[1] = PyInt(5) /\ last.result = PyStr("5"))
                    => (last.outcome = "ok" /\ last.returned = PyStr("5"))
              /\ last.args[1] = PyStr("5") => last.outcome = "ArgumentTypeError"
              /\ (last.args[1] = PyInt(5) /\ last.result = PyInt(5))
                    => last.outcome = "ReturnTypeError"

\* f(5) ran its body and its int result was refused
C4_Witness ==
    /\ IsStrict(last) /\ last.en /\ last.name = "f"
    /\ last.args[1] = PyInt(5) /\ last.result = PyInt(5)
    /\ last.outcome = "ReturnTypeError"

ContainerMethods ==
    {"__getitem__", "__setitem__", "__delitem__", "__iter__", "__reversed__",
     "__len__", "__contains__"}

DeclaresTrait(cls, trait) == \E i \in Fields(cls) : trait \in DeclTraits(cls, i)

\* C5: once a type that declares a 'container' field has been constructed
\* successfully with the toggle on, it has the seven container capabilities
\* (index get/set/delete, iteration, reverse iteration, length, membership);
\* an instance backed by [1,2,3] has length 3, contains 2 and iterates
\* 1,2,3.
C5_ContainerCapabilities ==
    /\ \A cls \in Classes :
          (typ[cls]._initialized /\ DeclaresTrait(cls, "container"))
              => ContainerMethods \subseteq typ[cls].methods
    /\ ( /\ IsInit(last) /\ last.en /\ last.name = "Bag" /\ last.outcome = "ok"
         /\ last.args[1] = PyList(<<1, 2, 3>>) )
       => /\ py_len(typ["Bag"], last.obj) = Return(PyInt(3))
          /\ py_contains(typ["Bag"], last.obj, PyInt(2)) = Return(PyBool(TRUE))
          /\ py_iter(typ["Bag"], last.obj).items = <<1, 2, 3>>

\* C6: once a type is initialized, a later construction with the toggle on
\* never raises AnnotationError and leaves the type's capabilities and
\* recorded backing fields exactly as they were.
C6_InstalledOnce ==
    [][ /\ \A cls \in Classes : typ[cls]._initialized => typ'[cls] = typ[cls]
        /\ (IsInit(last') /\ last'.en /\ last'.wasInit)
              => last'.outcome # "AnnotationError" ]_vars

\* a second instance of Counter was constructed with the toggle on
C6_Witness ==
    /\ IsInit(last) /\ last.en /\ last.wasInit /\ last.name = "Counter"
    /\ last.outcome = "ok"

\* C7: with the toggle off the wrapper still assigns every declared field
\* on the instance, also when the constructor body assigns nothing.
C7_FieldsAssignedWhenOff ==
    (IsInit(last) /\ ~last.en) =>
        \A i \in Fields(last.name) :
            \E n \in {ClassArgs(last.name)[i], Mangled(last.name, i)} :
                n \in DOMAIN last.obj /\ last.obj[n] = last.args[i]

\* C8: with the toggle on, every successfully constructed instance of a
\* type with a 'private' field holds the value under the mangled name and
\* not under the plain name, and a capability backed by that field reads
\* the value on that instance.
C8_PrivateOnEveryInstance ==
    (IsInit(last) /\ last.en /\ last.outcome = "ok") =>
        \A i \in Fields(last.name) :
            "private" \in DeclTraits(last.name, i) =>
                /\ Mangled(last.name, i) \in DOMAIN last.obj
                /\ ClassArgs(last.name)[i] \notin DOMAIN last.obj
                /\ last.obj[Mangled(last.name, i)] = last.args[i]
                /\ "boolean" \in DeclTraits(last.name, i) =>
                      py_bool(typ[last.name], last.obj)
                        = Return(PyBool(Truth(last.args[i])))

\* C9: the strict wrapper rejects a value exactly when descriptor
\* construction under the same annotation would reject it, for arguments
\* and for the return value.
C9_SameRule ==
    (IsStrict(last) /\ last.en) =>
        LET ann == FuncAnnotations(last.name)
            bad(name, value) ==
                name \in DOMAIN ann /\ Argument(name, value, ann[name]).raised
        IN /\ last.outcome = "ArgumentTypeError"
                <=> \E i \in Checked(last.name) :
                        bad(FuncArgs(last.name)[i], last.args[i])
           /\ last.outcome = "ReturnTypeError"
                <=> /\ ~\E i \in Checked(last.name) :
                          bad(FuncArgs(last.name)[i], last.args[i])
                    /\ bad("return", last.result)

\* the fields of a class that declare 'string', in declaration order
StringFields(cls) ==
    SelectSeq([i \in Fields(cls) |-> i], LAMBDA i : "string" \in DeclTraits(cls, i))

\* C10: after any sequence of constructions with the toggle on, aborted
\* ones included, the string list of a type holds each field declaring
\* 'string' at most once, and exactly those fields in declaration order
\* once the type is initialized, so the rendering shows each field once.
C10_StringFieldsOnce ==
    /\ \A cls \in Classes :
        /\ \A i, j \in 1..Len(typ[cls]._varstr) :
              i # j => typ[cls]._varstr[i] # typ[cls]._varstr[j]
        /\ typ[cls]._initialized =>
              typ[cls]._varstr =
                 [n \in 1..Len(StringFields(cls)) |->
                     DescriptorName(cls, StringFields(cls)[n])]
    /\ ( /\ IsInit(last) /\ last.en /\ last.outcome = "ok"
         /\ last.name = "Counter" )
       => _str("Counter", typ["Counter"], last.obj).text
             = "<Counter: label=" \o StrOf(last.args[1]) \o ">"
====
